---- MODULE Spec2Model ----
(***************************************************************************)
(* Model of octomap_server (octomap_server/src/octomap_server.cpp): the    *)
(* process main() -> OctomapServer::OctomapServer -> readMap -> advertise  *)
(* and publish -> ros::spin (serviceCallback), with the per-voxel loop of  *)
(* readMap modelled one iteration at a time.                               *)
(*                                                                         *)
(* Numbers.  A double that the code computes with is modelled exactly:     *)
(*   - a height or a colour component is a pair <<n, d>>, the rational     *)
(*     n/d in lowest terms with d > 0; <<1,0>>, <<-1,0>> and <<0,0>> are   *)
(*     +inf, -inf and NaN, the IEEE results of a division by zero;         *)
(*   - a voxel size or a resolution is a record [m, e], the value          *)
(*     m * 2^e with m odd (the shape of a binary floating-point number),   *)
(*     so that lowestRes * pow(2, i) and log2(size / lowestRes) are exact. *)
(* header.stamp (ros::Time::now()) is not modelled.                        *)
(***************************************************************************)
EXTENDS Integers, Sequences, FiniteSets, TLC

\* ---- bounds of the model ----
MaxVoxels == 2       \* longest list of occupied voxels a map holds
MaxZ == 2            \* the greatest height of a voxel centre and of the metric bounds
MaxRequests == 2     \* service requests handled while spinning
MaxLoads == 2        \* readMap calls on one server (SpecReload)
MaxReloadVoxels == 1  \* longest list of occupied voxels of a map in SpecReload

\* ---- program constants ----
NumLevels == 16      \* m_occupiedCellsVis.markers.resize(16)
EXIT_USAGE == -1     \* exit(-1) in main
EXIT_CAUGHT == -1    \* return -1 in main's catch
EXIT_OK == 0         \* return 0 in main
SIGABRT_STATUS == 134 \* abort(): a failed assert, or std::terminate

\* ======================= doubles as exact values =======================
Abs(x) == IF x < 0 THEN -x ELSE x

RECURSIVE GCD(_, _)
GCD(a, b) == IF b = 0 THEN a ELSE GCD(b, a % b)

NaN == <<0, 0>>
PosInf == <<1, 0>>
NegInf == <<-1, 0>>
Zero == <<0, 1>>
One == <<1, 1>>

IsFinite(a) == a[2] # 0

\* n/d in lowest terms, d # 0
Rat(n, d) ==
  LET s == IF d < 0 THEN -1 ELSE 1
      g == GCD(Abs(n), Abs(d))
  IN  <<(s * n) \div g, (s * d) \div g>>

FromInt(k) == <<k, 1>>

\* a < b on doubles: false when either is NaN
DLess(a, b) ==
  IF a = NaN \/ b = NaN THEN FALSE
  ELSE IF a = b THEN FALSE
  ELSE IF a = NegInf \/ b = PosInf THEN TRUE
  ELSE IF a = PosInf \/ b = NegInf THEN FALSE
  ELSE a[1] * b[2] < b[1] * a[2]

\* std::max(a, b) is (a < b) ? b : a ; std::min(a, b) is (b < a) ? b : a
StdMax(a, b) == IF DLess(a, b) THEN b ELSE a
StdMin(a, b) == IF DLess(b, a) THEN b ELSE a

\* a / b on doubles (finite operands): x/0 is +-inf, 0/0 is NaN
DDiv(a, b) ==
  IF ~IsFinite(a) \/ ~IsFinite(b) THEN NaN
  ELSE IF b[1] = 0
       THEN (IF a[1] = 0 THEN NaN ELSE IF a[1] > 0 THEN PosInf ELSE NegInf)
       ELSE Rat(a[1] * b[2], a[2] * b[1])

\* a - b and a * b on doubles; the operands the code gives them are finite
\* or NaN (the quotient is clamped first), and NaN propagates
DSub(a, b) ==
  IF ~IsFinite(a) \/ ~IsFinite(b) THEN NaN
  ELSE Rat(a[1] * b[2] - b[1] * a[2], a[2] * b[2])

DMul(a, b) ==
  IF ~IsFinite(a) \/ ~IsFinite(b) THEN NaN
  ELSE Rat(a[1] * b[1], a[2] * b[2])

\* floor(a) of a finite double, as an integer
Floor(a) == a[1] \div a[2]

\* ======================= sizes: m * 2^e ================================
RECURSIVE Pow2(_)
Pow2(n) == IF n <= 0 THEN 1 ELSE 2 * Pow2(n - 1)

ZeroSize == [m |-> 0, e |-> 0]

\* lowestRes * pow(2, i)
ScaleBy(size, i) == [m |-> size.m, e |-> size.e + i]

\* floor(log2(ms / mb) + 0.5) for two mantissas: the k with
\* 2^(k - 1/2) <= ms/mb < 2^(k + 1/2), compared as squares
MantissaLevels == -3 .. 3
MantissaLevel(ms, mb) ==
  CHOOSE k \in MantissaLevels :
    /\ Pow2(2 * k + 6) * mb * mb <= 128 * ms * ms
    /\ 128 * ms * ms < Pow2(2 * k + 8) * mb * mb

\* floor(log2(size / lowestRes) + 0.5)
FloorLog2PlusHalf(size, lowestRes) ==
  (size.e - lowestRes.e) + MantissaLevel(size.m, lowestRes.m)

\* int(log2(it->second / lowestRes) + 0.5): the conversion to int truncates
\* toward zero.  log2 of a rational plus 0.5 is never an integer, so a
\* negative value truncates to its floor plus one.
LevelIndex(size, lowestRes) ==
  LET fl == FloorLog2PlusHalf(size, lowestRes)
  IN  IF fl >= 0 THEN fl ELSE fl + 1

\* assert (idx >= 0 && unsigned(idx) < m_occupiedCellsVis.markers.size())
AssertIdx(idx, markers) == idx >= 0 /\ idx < Len(markers)

\* ======================= heightMapColor ================================
RGBA(r, g, b, a) == [r |-> r, g |-> g, b |-> b, a |-> a]

\* the switch (i) of heightMapColor, with v = 1 and m = v * (1 - s) = 0
HeightMapSwitch(i, n) ==
  CASE i \in {0, 6} -> RGBA(One, n, Zero, One)
    [] i = 1 -> RGBA(n, One, Zero, One)
    [] i = 2 -> RGBA(Zero, One, n, One)
    [] i = 3 -> RGBA(Zero, n, One, One)
    [] i = 4 -> RGBA(n, Zero, One, One)
    [] i = 5 -> RGBA(One, Zero, n, One)
    [] OTHER -> RGBA(One, <<1, 2>>, <<1, 2>>, One)

\* i = floor(h) for h = NaN converts NaN to int, which is undefined; the
\* builds in use give INT_MIN (x86: an int outside 0..6, here -1) or 0 (ARM)
IntOfNaN == {-1, 0}

\* The colours heightMapColor(h) can return: one colour for a finite h,
\* any of the outcomes of the undefined conversion for h = NaN.
heightMapColor(h) ==
  IF IsFinite(h)
  THEN LET h1 == DSub(h, FromInt(Floor(h)))
           h6 == DMul(h1, FromInt(6))
           i == Floor(h6)
           f == DSub(h6, FromInt(i))
           f2 == IF i % 2 = 0 THEN DSub(One, f) ELSE f
           n == DSub(One, f2)
       IN  {HeightMapSwitch(i, n)}
  ELSE {HeightMapSwitch(i, NaN) : i \in IntOfNaN}

\* HFraction without the "1.0 -"
HFraction_noInvert(z, lo, hi, colorFactor) ==
  DMul(StdMin(StdMax(DDiv(DSub(FromInt(z), FromInt(lo)),
                          DSub(FromInt(hi), FromInt(lo))),
                     Zero),
              One),
       colorFactor)

\* double h = (1.0 - std::min(std::max((z-minZ)/(maxZ-minZ), 0.0), 1.0)) * m_colorFactor
HFraction(z, lo, hi, colorFactor) ==
  DMul(DSub(One,
            StdMin(StdMax(DDiv(DSub(FromInt(z), FromInt(lo)),
                               DSub(FromInt(hi), FromInt(lo))),
                          Zero),
                   One)),
       colorFactor)

\* ======================= messages ======================================
ADD == 0
DELETE == 2
CUBE_LIST == 6

\* a default-constructed visualization_msgs::Marker, as resize() creates it
DefaultMarker ==
  [frame_id |-> "", ns |-> "", id |-> 0, type |-> 0, action |-> 0,
   scale |-> <<ZeroSize, ZeroSize, ZeroSize>>,
   color |-> RGBA(Zero, Zero, Zero, Zero),
   points |-> <<>>, colors |-> <<>>]

\* std::vector::resize(n): keeps the elements it has, appends defaults
Resize(markers, n) ==
  IF Len(markers) >= n THEN SubSeq(markers, 1, n)
  ELSE markers \o [i \in 1 .. (n - Len(markers)) |-> DefaultMarker]

\* a default-constructed GetOctomap::Response
DefaultResponse == [map |-> [frame_id |-> "", data |-> <<>>]]

\* octomap_server::octomapMapToMsg(map, msg): the binary encoding of the
\* tree, kept opaque: the tree itself
octomapMapToMsg(tree, msg) == [msg EXCEPT !.data = <<tree>>]

\* ======================= inputs ========================================
FrameIds == {"/map"}
ColorFactors == {<<1, 2>>, <<4, 5>>, <<1, 1>>}
Blue == RGBA(Zero, Zero, One, One)
Colors == {Blue}
Resolutions == {[m |-> 1, e |-> 0], [m |-> 3, e |-> -1]}
\* against the resolution 1 the sizes are the levels -1, 0, 1 and 16; against
\* 1.5 they are off the grid: ratios 1/3, 2/3, 4/3 and 2^17/3
Sizes == {[m |-> 1, e |-> -1], [m |-> 1, e |-> 0], [m |-> 1, e |-> 1],
          [m |-> 1, e |-> 16]}
\* the heights of voxel centres: the bottom, one above it, and the top
Heights == {0, 1, MaxZ}

\* the lists of occupied voxels (pair<point3d, double>) of at most n voxels,
\* the j-th voxel centred at (j, 0, z)
VoxelLists(n) ==
  UNION {
    { [j \in 1 .. len |-> [first |-> <<j, 0, zs[j].z>>, second |-> zs[j].size]]
        : zs \in [1 .. len -> [z : Heights, size : Sizes]] }
    : len \in 0 .. n }

\* what octomap::OcTree map(filename) hands readMap
\* the metric bounds (minZ, maxZ): the whole range of heights, a range that
\* leaves height 0 below it, and a degenerate one with heights on both sides
MetricBounds == {<<0, MaxZ>>, <<1, MaxZ>>, <<1, 1>>}

OcTrees(n) ==
  { [occupied |-> vs, minZ |-> b[1], maxZ |-> b[2], resolution |-> r]
      : vs \in VoxelLists(n), b \in MetricBounds, r \in Resolutions }

EmptyTree == [occupied |-> <<>>, minZ |-> 0, maxZ |-> 0,
              resolution |-> [m |-> 1, e |-> 0]]

\* ======================= state =========================================
VARIABLES
  pc,                  \* where the process is: main, readMap, loop, advertise, spin, exited
  exitStatus,          \* the status the process exited with
  exception,           \* the exception thrown out of the constructor, "none" if none
  caller,              \* who called readMap: "ctor", or "api" on a later call
  m_frameId, m_useHeightMap, m_color, m_colorFactor,
  m_mapResponse,       \* (cached) map data
  m_occupiedCellsVis,  \* (cached) map visualization data: the markers
  map,                 \* readMap's local octomap::OcTree map
  it,                  \* readMap's iterator, an index into map.occupied
  numVoxels,           \* readMap's local counter
  h,                   \* the loop body's local double h
  advertised,          \* topics and service advertised
  binaryMapPub,        \* messages published on octomap_binary
  markerPub,           \* messages published on occupied_cells_vis_array
  res,                 \* the response of the last service call
  ret,                 \* the return value of the last service call
  numRequests,         \* service calls handled
  numLoads             \* readMap calls completed

vars == <<pc, exitStatus, exception, caller, m_frameId, m_useHeightMap, m_color,
          m_colorFactor, m_mapResponse, m_occupiedCellsVis, map, it, numVoxels,
          h, advertised, binaryMapPub, markerPub, res, ret, numRequests, numLoads>>

config == <<m_frameId, m_useHeightMap, m_color, m_colorFactor>>
cache == <<m_mapResponse, m_occupiedCellsVis>>
locals == <<map, it, numVoxels, h>>
delivery == <<advertised, binaryMapPub, markerPub, res, ret, numRequests>>

\* the process at main(), the members as the initializer list sets them
Init ==
  /\ pc = "main"
  /\ exitStatus = 0
  /\ exception = "none"
  /\ caller = "ctor"
  /\ m_frameId = "/map"
  /\ m_useHeightMap = TRUE
  /\ m_color = RGBA(Zero, Zero, Zero, Zero)
  /\ m_colorFactor = <<4, 5>>
  /\ m_mapResponse = DefaultResponse
  /\ m_occupiedCellsVis = <<>>
  /\ map = EmptyTree
  /\ it = 1
  /\ numVoxels = 0
  /\ h = Zero
  /\ advertised = FALSE
  /\ binaryMapPub = <<>>
  /\ markerPub = <<>>
  /\ res = DefaultResponse
  /\ ret = FALSE
  /\ numRequests = 0
  /\ numLoads = 0

\* ======================= main and the constructor ======================
\* main: argc != 2 -> ROS_ERROR(USAGE); exit(-1)
Usage ==
  /\ pc = "main"
  /\ pc' = "exited"
  /\ exitStatus' = EXIT_USAGE
  /\ UNCHANGED <<exception, caller, config, cache, locals, delivery, numLoads>>

\* OctomapServer::OctomapServer up to the call of readMap: the parameters
Construct ==
  /\ pc = "main"
  /\ \E frame \in FrameIds, useHeightMap \in BOOLEAN,
        colorFactor \in ColorFactors, color \in Colors :
       /\ (~useHeightMap => colorFactor = m_colorFactor)
       /\ m_frameId' = frame
       /\ m_useHeightMap' = useHeightMap
       /\ m_colorFactor' = colorFactor
       /\ m_color' = color
  /\ pc' = "readMap"
  /\ caller' = "ctor"
  /\ UNCHANGED <<exitStatus, exception, cache, locals, delivery, numLoads>>

\* ======================= readMap =======================================
\* readMap up to the loop: the tree is read, the snapshot cached, the
\* markers resized
OpenMap(tree) ==
  /\ map' = tree
  /\ m_mapResponse' =
       [m_mapResponse EXCEPT
          !.map = octomapMapToMsg(tree, [m_mapResponse.map EXCEPT !.frame_id = m_frameId])]
  /\ m_occupiedCellsVis' = Resize(m_occupiedCellsVis, NumLevels)
  /\ it' = 1
  /\ numVoxels' = 0
  /\ pc' = "loop"

\* the constructor's call readMap(filename), the file holding at most n voxels
ReadMapOf(n) ==
  /\ pc = "readMap"
  /\ \E tree \in OcTrees(n) : OpenMap(tree)
  /\ UNCHANGED <<exitStatus, exception, caller, config, h, delivery, numLoads>>

ReadMap == ReadMapOf(MaxVoxels)

\* octomap::OcTree map(filename) throws: a std::runtime_error is caught in
\* main (return -1), anything else ends in std::terminate
ReadMapThrows ==
  /\ pc = "readMap"
  /\ caller = "ctor"
  /\ \E e \in {"runtime_error", "other"} :
       /\ exception' = e
       /\ exitStatus' = IF e = "runtime_error" THEN EXIT_CAUGHT ELSE SIGABRT_STATUS
  /\ pc' = "exited"
  /\ UNCHANGED <<caller, config, cache, locals, delivery, numLoads>>

\* PushVoxel with the commented-out filter "if (it->first.z() > 0.01)" active
PushVoxel_filtered(markers, idx, center, color, useHeightMap) ==
  IF center[3] > 0
  THEN [markers EXCEPT
          ![idx + 1].points = Append(@, center),
          ![idx + 1].colors = IF useHeightMap THEN Append(@, color) ELSE @]
  ELSE markers

\* PushVoxel without the test of m_useHeightMap
PushVoxel_alwaysColor(markers, idx, center, color, useHeightMap) ==
  [markers EXCEPT
     ![idx + 1].points = Append(@, center),
     ![idx + 1].colors = Append(@, color)]

\* markers[idx].points.push_back(cubeCenter), and the colour when
\* m_useHeightMap is set
PushVoxel(markers, idx, center, color, useHeightMap) ==
  [markers EXCEPT
     ![idx + 1].points = Append(@, center),
     ![idx + 1].colors = IF useHeightMap THEN Append(@, color) ELSE @]

\* one iteration of the loop over occupiedCells
ProcessVoxel ==
  /\ pc = "loop"
  /\ it <= Len(map.occupied)
  /\ LET v == map.occupied[it]
         idx == LevelIndex(v.second, map.resolution)
         hv == HFraction(v.first[3], map.minZ, map.maxZ, m_colorFactor)
     IN  IF ~AssertIdx(idx, m_occupiedCellsVis)
         THEN /\ pc' = "exited"
              /\ exitStatus' = SIGABRT_STATUS
              /\ UNCHANGED <<m_occupiedCellsVis, it, numVoxels, h>>
         ELSE /\ \E color \in (IF m_useHeightMap THEN heightMapColor(hv) ELSE {m_color}) :
                   m_occupiedCellsVis' =
                     PushVoxel(m_occupiedCellsVis, idx, v.first, color, m_useHeightMap)
              /\ h' = IF m_useHeightMap THEN hv ELSE h
              /\ numVoxels' = numVoxels + 1
              /\ it' = it + 1
              /\ UNCHANGED <<pc, exitStatus>>
  /\ UNCHANGED <<exception, caller, config, m_mapResponse, map, delivery, numLoads>>

\* FinalizeMarker with the size lowestRes * pow(2, i + 1)
FinalizeMarker_offByOne(marker, i, lowestRes, frame, color) ==
  LET size == ScaleBy(lowestRes, i + 1)
  IN  [marker EXCEPT
         !.frame_id = frame, !.ns = "map", !.id = i, !.type = CUBE_LIST,
         !.scale = <<size, size, size>>, !.color = color,
         !.action = IF Len(marker.points) > 0 THEN ADD ELSE DELETE]

\* FinalizeMarker that never marks a level DELETE
FinalizeMarker_alwaysAdd(marker, i, lowestRes, frame, color) ==
  LET size == ScaleBy(lowestRes, i)
  IN  [marker EXCEPT
         !.frame_id = frame, !.ns = "map", !.id = i, !.type = CUBE_LIST,
         !.scale = <<size, size, size>>, !.color = color,
         !.action = ADD]

\* the loop over the markers: header, id, type, scale, color, action
FinalizeMarker(marker, i, lowestRes, frame, color) ==
  LET size == ScaleBy(lowestRes, i)
  IN  [marker EXCEPT
         !.frame_id = frame,
         !.ns = "map",
         !.id = i,
         !.type = CUBE_LIST,
         !.scale = <<size, size, size>>,
         !.color = color,
         !.action = IF Len(marker.points) > 0 THEN ADD ELSE DELETE]

Finalize ==
  /\ pc = "loop"
  /\ it > Len(map.occupied)
  /\ m_occupiedCellsVis' =
       [i \in 1 .. Len(m_occupiedCellsVis) |->
          FinalizeMarker(m_occupiedCellsVis[i], i - 1, map.resolution, m_frameId, m_color)]
  /\ numLoads' = numLoads + 1
  /\ pc' = IF caller = "ctor" THEN "advertise" ELSE "spin"
  /\ UNCHANGED <<exitStatus, exception, caller, config, m_mapResponse, locals, delivery>>

\* ======================= delivery ======================================
\* Advertise placed before the call of readMap in the constructor
Advertise_beforeReadMap ==
  /\ pc = "readMap"
  /\ ~advertised
  /\ advertised' = TRUE
  /\ binaryMapPub' = Append(binaryMapPub, m_mapResponse.map)
  /\ markerPub' = Append(markerPub, m_occupiedCellsVis)
  /\ UNCHANGED <<pc, exitStatus, exception, caller, config, cache, locals, res, ret,
                 numRequests, numLoads>>

\* the constructor after readMap: advertise, advertiseService, publish once
Advertise ==
  /\ pc = "advertise"
  /\ advertised' = TRUE
  /\ binaryMapPub' = Append(binaryMapPub, m_mapResponse.map)
  /\ markerPub' = Append(markerPub, m_occupiedCellsVis)
  /\ pc' = "spin"
  /\ UNCHANGED <<exitStatus, exception, caller, config, cache, locals, res, ret,
                 numRequests, numLoads>>

\* serviceCallback that swaps the cached response out (res.swap(m_mapResponse))
serviceCallback_swap ==
  /\ pc = "spin"
  /\ advertised
  /\ numRequests < MaxRequests
  /\ res' = m_mapResponse
  /\ m_mapResponse' = res
  /\ ret' = TRUE
  /\ numRequests' = numRequests + 1
  /\ UNCHANGED <<pc, exitStatus, exception, caller, config, m_occupiedCellsVis,
                 locals, advertised, binaryMapPub, markerPub, numLoads>>

\* OctomapServer::serviceCallback, called from ros::spin()
serviceCallback ==
  /\ pc = "spin"
  /\ advertised
  /\ numRequests < MaxRequests
  /\ res' = m_mapResponse
  /\ ret' = TRUE
  /\ numRequests' = numRequests + 1
  /\ UNCHANGED <<pc, exitStatus, exception, caller, config, cache, locals,
                 advertised, binaryMapPub, markerPub, numLoads>>

\* ros::spin() returns on shutdown: return 0
Shutdown ==
  /\ pc = "spin"
  /\ pc' = "exited"
  /\ exitStatus' = EXIT_OK
  /\ UNCHANGED <<exception, caller, config, cache, locals, delivery, numLoads>>

\* a later call of the public readMap on the constructed server
ReadMapAgain ==
  /\ pc = "spin"
  /\ numLoads < MaxLoads
  /\ caller' = "api"
  /\ \E tree \in OcTrees(MaxReloadVoxels) : OpenMap(tree)
  /\ UNCHANGED <<exitStatus, exception, config, h, delivery, numLoads>>

\* the first load of a server that is to load again
ReadMapFirst == ReadMapOf(MaxReloadVoxels)

Next ==
  \/ Usage
  \/ Construct
  \/ ReadMap
  \/ ReadMapThrows
  \/ ProcessVoxel
  \/ Finalize
  \/ Advertise
  \/ serviceCallback
  \/ Shutdown

Spec == Init /\ [][Next]_vars

\* the server with readMap called again while it spins
NextReload ==
  \/ Usage
  \/ Construct
  \/ ReadMapFirst
  \/ ReadMapThrows
  \/ ProcessVoxel
  \/ Finalize
  \/ Advertise
  \/ serviceCallback
  \/ Shutdown
  \/ ReadMapAgain

SpecReload == Init /\ [][NextReload]_vars

\* ======================= the claims ====================================
Levels == 0 .. (NumLevels - 1)
Occupied == map.occupied
Markers == m_occupiedCellsVis

\* readMap has resized the markers: the loop runs or has run
Opened == Len(Markers) = NumLevels

\* the map load succeeded: the constructor's readMap has returned
AfterLoad == numLoads >= 1 /\ pc \in {"advertise", "spin", "exited"}

\* size == resolution * 2^k for a k in 0 .. NumLevels - 1, and that k
GridLevel(v) == v.second.e - map.resolution.e
OnGrid(v) == v.second.m = map.resolution.m /\ GridLevel(v) \in Levels

\* round(log2(size / baseResolution)), the level as the specification has it
RoundLevel(v) == FloorLog2PlusHalf(v.second, map.resolution)

Count(seq, x) == Cardinality({i \in 1 .. Len(seq) : seq[i] = x})

RECURSIVE TotalPoints(_)
TotalPoints(k) ==
  IF k = 0 THEN 0 ELSE Len(Markers[k].points) + TotalPoints(k - 1)

InSomeBucket(center) ==
  \E k \in 1 .. Len(Markers) : Count(Markers[k].points, center) > 0

\* the colours the code computes for a height z of the loaded map
ColorsOfHeight(z) ==
  heightMapColor(HFraction(z, map.minZ, map.maxZ, m_colorFactor))

\* C1: when every occupied voxel has size == resolution * 2^k with k in
\* 0..15, each voxel the loop has processed has its centre exactly once in
\* the points of marker k and in no other marker, the markers hold as many
\* points as voxels were processed, and after the load that is every voxel.
C1_EachVoxelOnceInItsBucket ==
  (Opened /\ \A j \in 1 .. Len(Occupied) : OnGrid(Occupied[j]))
  =>
  /\ \A j \in 1 .. (it - 1), k \in Levels :
       Count(Markers[k + 1].points, Occupied[j].first)
         = (IF GridLevel(Occupied[j]) = k THEN 1 ELSE 0)
  /\ TotalPoints(NumLevels) = it - 1
  /\ (AfterLoad => TotalPoints(NumLevels) = Len(Occupied))

C1_Witness ==
  /\ AfterLoad
  /\ Len(Occupied) >= 2
  /\ \A j \in 1 .. Len(Occupied) : OnGrid(Occupied[j])
  /\ GridLevel(Occupied[1]) # GridLevel(Occupied[2])

\* C2: a voxel whose level round(log2(size / resolution)) is outside 0..15
\* makes the build fail: the loop never gets past it and its centre is in
\* no marker.
C2_OutOfRangeLevelAborts ==
  \A j \in 1 .. Len(Occupied) :
    RoundLevel(Occupied[j]) \notin Levels
    => (it <= j /\ ~InSomeBucket(Occupied[j].first))

\* C3: with height colouring on, every marker has as many colours as
\* points and colors[i] is the colour computed from the z of points[i], after
\* each voxel and at the end of readMap; with it off, every marker's colors
\* stay empty and after the load the marker carries the fixed colour.
C3_ParallelArrays ==
  \A k \in 1 .. Len(Markers) :
    IF m_useHeightMap
    THEN /\ Len(Markers[k].colors) = Len(Markers[k].points)
         /\ \A i \in 1 .. Len(Markers[k].points) :
              Markers[k].colors[i] \in ColorsOfHeight(Markers[k].points[i][3])
    ELSE /\ Markers[k].colors = <<>>
         /\ (AfterLoad => Markers[k].color = m_color)

C3_Witness ==
  /\ AfterLoad
  /\ m_useHeightMap
  /\ \E k \in 1 .. Len(Markers) :
       /\ Len(Markers[k].points) >= 2
       /\ Markers[k].points[1][3] # Markers[k].points[2][3]
       /\ Markers[k].colors[1] # Markers[k].colors[2]

\* C4: after every successful load there are exactly 16 markers, marker i
\* (in ascending order) has id i and the cube size resolution * 2^i on all
\* three axes, whatever the occupied voxels, none included.
C4_SixteenLevelsInOrder ==
  AfterLoad =>
    /\ Len(Markers) = NumLevels
    /\ \A i \in Levels :
         /\ Markers[i + 1].id = i
         /\ \A axis \in 1 .. 3 :
              Markers[i + 1].scale[axis]
                = [m |-> map.resolution.m, e |-> map.resolution.e + i]

C4_Witness ==
  /\ AfterLoad
  /\ Occupied = <<>>
  /\ Len(Markers) = NumLevels

\* C5: after the load a marker's action is ADD if and only if its points
\* are non-empty and DELETE otherwise; with no occupied voxel all are DELETE.
C5_AddIffPopulated ==
  AfterLoad =>
    /\ \A k \in 1 .. Len(Markers) :
         Markers[k].action = (IF Len(Markers[k].points) > 0 THEN ADD ELSE DELETE)
    /\ (Occupied = <<>> => \A k \in 1 .. Len(Markers) : Markers[k].action = DELETE)

C5_Witness ==
  /\ AfterLoad
  /\ \E k \in 1 .. Len(Markers) : Markers[k].action = ADD
  /\ \E k \in 1 .. Len(Markers) : Markers[k].action = DELETE

\* C6: every service request succeeds and its response is the cached
\* snapshot the load produced (the frame id and the encoded tree); the
\* cache is still what was published once after the load, so no request
\* rebuilt or changed the cached snapshot or the cached markers.
C6_RequestsReturnTheCache ==
  numRequests > 0 =>
    /\ ret = TRUE
    /\ res = m_mapResponse
    /\ res.map = [frame_id |-> m_frameId, data |-> <<map>>]
    /\ binaryMapPub = <<m_mapResponse.map>>
    /\ markerPub = <<m_occupiedCellsVis>>

C6_Witness ==
  /\ numRequests = MaxRequests
  /\ Len(Occupied) > 0
  /\ res.map.data = <<map>>

\* C7: nothing is advertised or published and no request is answered
\* before readMap has completed, what is published is the finished result,
\* and a process whose map load threw never advertises, publishes or serves
\* and has exited with a non-zero status.
C7_LoadBeforeServe ==
  /\ (advertised \/ binaryMapPub # <<>> \/ markerPub # <<>> \/ numRequests > 0)
       => /\ numLoads >= 1
          /\ pc \in {"spin", "exited"}
          /\ markerPub = <<m_occupiedCellsVis>>
          /\ \A k \in 1 .. Len(Markers) : Markers[k].ns = "map"
  /\ exception # "none"
       => /\ ~advertised
          /\ binaryMapPub = <<>> /\ markerPub = <<>>
          /\ numRequests = 0
          /\ pc = "exited"
          /\ exitStatus # 0

C7_Witness ==
  /\ exception = "runtime_error"
  /\ pc = "exited"
  /\ exitStatus = EXIT_CAUGHT

\* the height fraction of the voxel the loop processed last
LastZ == Occupied[it - 1].first[3]

HeightFractions ==
  (m_useHeightMap /\ Opened /\ it > 1 /\ map.minZ < map.maxZ)
  =>
  /\ (LastZ = map.minZ => h = m_colorFactor)
  /\ (LastZ = map.maxZ => h = Zero)
  /\ ~DLess(h, Zero) /\ ~DLess(m_colorFactor, h)

\* the colours the markers hold for the voxels at height z
ColorsAt(z) ==
  UNION { { Markers[k].colors[i] :
              i \in { n \in 1 .. Len(Markers[k].points) : Markers[k].points[n][3] = z } }
          : k \in 1 .. Len(Markers) }

\* the colours of a voxel at minZ and of a voxel at maxZ are distinct
LowestAndHighestDiffer ==
  (m_useHeightMap /\ map.minZ < map.maxZ)
  => ColorsAt(map.minZ) \cap ColorsAt(map.maxZ) = {}

InExpectedRange(cf) == DLess(Zero, cf) /\ ~DLess(One, cf)

\* C8 as claimed: for minZ < maxZ and colorFactor in (0, 1], a voxel at minZ
\* gets h == colorFactor, one at maxZ gets h == 0, every h is in
\* [0, colorFactor], and the colours of the lowest and the highest voxel
\* are distinct.
C8_Original ==
  InExpectedRange(m_colorFactor) => (HeightFractions /\ LowestAndHighestDiffer)

\* C8 amended: the height fractions are as claimed for colorFactor in (0, 1];
\* the colours of the lowest and the highest voxel are distinct for
\* colorFactor in (0, 1), not for colorFactor == 1.
C8_DistinctBelowOne ==
  InExpectedRange(m_colorFactor) =>
    /\ HeightFractions
    /\ (DLess(m_colorFactor, One) => LowestAndHighestDiffer)

C8_Witness ==
  /\ AfterLoad
  /\ m_useHeightMap
  /\ m_colorFactor = <<4, 5>>
  /\ map.minZ = 0 /\ map.maxZ = MaxZ
  /\ Len(Occupied) >= 2
  /\ Occupied[1].first[3] = map.minZ
  /\ Occupied[2].first[3] = map.maxZ
  /\ h = Zero
  /\ \E k \in 1 .. Len(Markers) :
       \E i \in 1 .. Len(Markers[k].colors) :
         Markers[k].colors[i] = RGBA(<<4, 5>>, Zero, One, One)

\* C9: with maxZ == minZ and height colouring on, every voxel processed got
\* a defined height fraction and a colour with defined components.
C9_DegenerateBoundsDefined ==
  (m_useHeightMap /\ Opened /\ map.minZ = map.maxZ)
  =>
  /\ (it > 1 => IsFinite(h))
  /\ \A k \in 1 .. Len(Markers) : \A i \in 1 .. Len(Markers[k].colors) :
       /\ Cardinality(ColorsOfHeight(Markers[k].points[i][3])) = 1
       /\ IsFinite(Markers[k].colors[i].r)
       /\ IsFinite(Markers[k].colors[i].g)
       /\ IsFinite(Markers[k].colors[i].b)

\* the centres of the voxels of the loaded map that the code puts in level k
CentersOfLevel(k) ==
  LET sel == SelectSeq(Occupied, LAMBDA v : LevelIndex(v.second, map.resolution) = k)
  IN  [i \in 1 .. Len(sel) |-> sel[i].first]

\* C10: after any sequence of completed readMap calls the markers are what
\* one readMap of the last map produces on a fresh server: marker k holds
\* the centres of that map's voxels of level k and no others, as many
\* colours as the colouring gives them, and is DELETE when that is none.
C10_ReplacedOnReload ==
  (numLoads >= 1 /\ pc \in {"advertise", "spin"})
  =>
  \A k \in Levels :
    /\ Markers[k + 1].points = CentersOfLevel(k)
    /\ Len(Markers[k + 1].colors) = (IF m_useHeightMap THEN Len(CentersOfLevel(k)) ELSE 0)
    /\ Markers[k + 1].action = (IF CentersOfLevel(k) = <<>> THEN DELETE ELSE ADD)
====
